---- MODULE Spec2Model ----
(***************************************************************************)
(* Model of spoolman/integrations/bambu_mqtt.py: the BambuMQTTClient       *)
(* supervisor loop (run/stop), the per-message decoding                    *)
(* (_process_message) and the per-tray change filter and dispatch          *)
(* (_process_ams_data).                                                    *)
(*                                                                         *)
(* Units.  A remaining percentage is an integer number of tenths of a      *)
(* percentage point (5 is 0.5 %, 600 is 60 %).  A tray weight is an        *)
(* integer number of grams.  A remaining weight is percentage * weight,    *)
(* an integer number of milligrams ((p/10)/100 * w g = p*w mg).  Only      *)
(* finite numbers are modelled.                                            *)
(*                                                                         *)
(* One action is one stretch of run() between two awaits, except inside    *)
(* _process_ams_data, which is stepped one unit or one tray at a time.     *)
(* The supervisor never looks ahead in a message, so in Spec the content   *)
(* of a message is chosen as the loops read it; SpecReplay and SpecUnit    *)
(* fix a whole message in their initial state instead.                     *)
(***************************************************************************)
EXTENDS Integers, Naturals, Sequences, FiniteSets, TLC

VARIABLES
    running,          \* self.running
    client,           \* self.client: "None" or "Client"
    last_remaining,   \* self._last_remaining: slot id -> percentage
    reconnect_delay,  \* local of run()
    pc,               \* where run() is suspended
    session,          \* number of store sessions currently open
    msg,              \* shape of the message being handled
    cursor,           \* <<units read, trays read in the current unit>>
    tray,             \* the tray record read last
    update,           \* the store update being awaited
    event,            \* history: the step taken last
    fails,            \* history: failures since the last opened transport session
    subFails,         \* history: failures since the last successful subscribe
    stopCalled,       \* history: stop() was called while run() executes
    failedInMsg,      \* history: a store update failed in the current message
    log,              \* SpecReplay history: <<pass, unit, tray>> of every store update started
    doc,              \* SpecReplay: the message, a sequence of units
    pass              \* SpecReplay: 1 = first processing, 2 = the replay; 0 in Spec

vars == <<running, client, last_remaining, reconnect_delay, pc, session, msg,
          cursor, tray, update, event, fails, subFails, stopCalled,
          failedInMsg, log, doc, pass>>

----------------------------------------------------------------------------
(* Bounds *)

MaxFailures == 8      \* consecutive failures counted by the history counters
MaxUnits == 2         \* AMS units read from one message
MaxTrays == 2         \* trays read from one unit

(* Program constants *)

InitialDelay == 5            \* reconnect_delay = 5
ResetDelayDoubled == InitialDelay * 2
ResetDelay == 5              \* reconnect_delay = 5 after the session opened
MaxReconnectDelay == 300     \* max_reconnect_delay = 300
ChangeThreshold == 5         \* 0.5 percentage points, in tenths

Min(a, b) == IF a < b THEN a ELSE b
Abs(a) == IF a < 0 THEN -a ELSE a

----------------------------------------------------------------------------
(* Payload values *)

Absent == [t |-> "absent", v |-> 0]     \* key missing, or JSON null
Num(n) == [t |-> "num", v |-> n]        \* a JSON number
NumText(n) == [t |-> "numtext", v |-> n]  \* a JSON string that spells a number
Text == [t |-> "text", v |-> 0]         \* a JSON string that spells no number

PctValues == {-5, 0, 4, 5, 600}
WeightValues == {1000, -250}

RemainValues == {Absent, Text, NumText(5)} \cup {Num(p) : p \in PctValues}
WeightFields == {Absent, Text} \cup {Num(w) : w \in WeightValues}

(* The "id" of a tray: missing, a JSON string "0".."2" or a JSON integer.  *)
DigitText == <<"0", "1", "2">>
IdValues == {Absent, NumText(0), NumText(1), NumText(2), Num(0)}

NotADict == [t |-> "other", id |-> Absent, remain |-> Absent, tray_weight |-> Absent]
NoTray == [t |-> "none", id |-> Absent, remain |-> Absent, tray_weight |-> Absent]
Trays == {NotADict} \cup
         [t : {"dict"}, id : IdValues, remain : RemainValues, tray_weight : WeightFields]

(* self.ams_mappings, fixed at construction: slots "0" and "1" are mapped. *)
ams_mappings == ("0" :> 101) @@ ("1" :> 102)

NoUpdate == [spool_id |-> 0, remaining_weight |-> 0]

----------------------------------------------------------------------------
(* _process_ams_data, one tray *)

(* str(tray.get("id", "")) *)
Str(x) == IF x.t = "absent" THEN "" ELSE DigitText[x.v + 1]

(* float(x) for a value that is not None: ok, or ValueError/TypeError *)
FloatLenient(x) == IF x.t = "absent"
                   THEN [ok |-> FALSE, v |-> 0]
                   ELSE [ok |-> TRUE, v |-> x.v]

Float(x) == IF x.t \in {"num", "numtext"}
            THEN [ok |-> TRUE, v |-> x.v]
            ELSE [ok |-> FALSE, v |-> 0]

IsMapped(tray_id) == tray_id \in DOMAIN ams_mappings

(* last_remain is not None and abs(remain_percent - last_remain) < 0.5 *)
NoSignificantChangeLoose(last, tray_id, remain_percent) ==
    /\ tray_id \in DOMAIN last
    /\ Abs(remain_percent - last[tray_id]) <= ChangeThreshold

NoSignificantChange(last, tray_id, remain_percent) ==
    /\ tray_id \in DOMAIN last
    /\ Abs(remain_percent - last[tray_id]) < ChangeThreshold

(* self._last_remaining[tray_id] = remain_percent *)
SetBaselineLost(last, tray_id, remain_percent) == last

SetBaseline(last, tray_id, remain_percent) == (tray_id :> remain_percent) @@ last

(* (remain_percent / 100.0) * tray_weight *)
RemainingWeightClamped(remain_percent, tray_weight) ==
    IF remain_percent < 0 \/ tray_weight < 0 THEN 0 ELSE remain_percent * tray_weight

RemainingWeight(remain_percent, tray_weight) == remain_percent * tray_weight

(* The body of the inner for loop for one tray: the new tracker, and the   *)
(* store update it starts, if any.                                         *)
Skip(last) == [last |-> last, dispatch |-> FALSE, upd |-> NoUpdate]

ProcessTrayTrackFirst(last, t) ==
    LET tray_id == Str(t.id)
        pct == Float(t.remain)
        w == Float(t.tray_weight)
        last2 == SetBaseline(last, tray_id, pct.v)
    IN  IF t.t # "dict" THEN Skip(last)
        ELSE IF t.remain.t = "absent" THEN Skip(last)
        ELSE IF ~pct.ok THEN Skip(last)
        ELSE IF NoSignificantChange(last, tray_id, pct.v) THEN Skip(last)
        ELSE IF ~IsMapped(tray_id) THEN Skip(last2)
        ELSE IF t.tray_weight.t = "absent" THEN Skip(last2)
        ELSE IF ~w.ok THEN Skip(last2)
        ELSE [last |-> last2, dispatch |-> TRUE,
              upd |-> [spool_id |-> ams_mappings[tray_id],
                       remaining_weight |-> RemainingWeight(pct.v, w.v)]]

ProcessTrayWeightFirst(last, t) ==
    LET tray_id == Str(t.id)
        pct == Float(t.remain)
        w == Float(t.tray_weight)
        last2 == SetBaseline(last, tray_id, pct.v)
    IN  IF t.t # "dict" THEN Skip(last)
        ELSE IF ~IsMapped(tray_id) THEN Skip(last)
        ELSE IF t.remain.t = "absent" THEN Skip(last)
        ELSE IF ~pct.ok THEN Skip(last)
        ELSE IF t.tray_weight.t = "absent" THEN Skip(last)
        ELSE IF ~w.ok THEN Skip(last)
        ELSE IF NoSignificantChange(last, tray_id, pct.v) THEN Skip(last)
        ELSE [last |-> last2, dispatch |-> TRUE,
              upd |-> [spool_id |-> ams_mappings[tray_id],
                       remaining_weight |-> RemainingWeight(pct.v, w.v)]]

ProcessTrayTrackObserved(last, t) ==
    LET tray_id == Str(t.id)
        pct == Float(t.remain)
        w == Float(t.tray_weight)
        last2 == SetBaseline(last, tray_id, pct.v)
    IN  IF t.t # "dict" THEN Skip(last)
        ELSE IF ~IsMapped(tray_id) THEN Skip(last)
        ELSE IF t.remain.t = "absent" THEN Skip(last)
        ELSE IF ~pct.ok THEN Skip(last)
        ELSE IF NoSignificantChange(last, tray_id, pct.v) THEN Skip(last2)
        ELSE IF t.tray_weight.t = "absent" THEN Skip(last2)
        ELSE IF ~w.ok THEN Skip(last2)
        ELSE [last |-> last2, dispatch |-> TRUE,
              upd |-> [spool_id |-> ams_mappings[tray_id],
                       remaining_weight |-> RemainingWeight(pct.v, w.v)]]

ProcessTray(last, t) ==
    LET tray_id == Str(t.id)
        pct == Float(t.remain)
        w == Float(t.tray_weight)
        last2 == SetBaseline(last, tray_id, pct.v)
    IN  IF t.t # "dict" THEN Skip(last)
        ELSE IF ~IsMapped(tray_id) THEN Skip(last)
        ELSE IF t.remain.t = "absent" THEN Skip(last)
        ELSE IF ~pct.ok THEN Skip(last)
        ELSE IF NoSignificantChange(last, tray_id, pct.v) THEN Skip(last)
        ELSE IF t.tray_weight.t = "absent" THEN Skip(last2)
        ELSE IF ~w.ok THEN Skip(last2)
        ELSE [last |-> last2, dispatch |-> TRUE,
              upd |-> [spool_id |-> ams_mappings[tray_id],
                       remaining_weight |-> RemainingWeight(pct.v, w.v)]]

----------------------------------------------------------------------------
(* _process_message: what the body does with a message of each shape      *)

MsgShapes == {"bad_json",     \* json.loads raises JSONDecodeError
              "not_object",   \* valid JSON of another shape: TypeError, AttributeError
              "no_print",     \* a document without "print"
              "no_ams",       \* "print" without "ams", or "ams" without "ams"
              "empty_ams",    \* print.ams.ams is an empty list
              "units"}        \* print.ams.ams is a non-empty list
NoMsg == "none"

(* TRUE when _process_ams_data is entered and its loop runs *)
HasAmsDataLoose(shape) == shape \in {"units", "empty_ams"}

HasAmsData(shape) == shape = "units"

(* Shapes of one element of print.ams.ams *)
UnitShapes == {"no_tray",   \* a dict without "tray": continue
               "bad",       \* not a container, or "tray" is not iterable: TypeError
               "trays"}     \* a dict with a list under "tray"

----------------------------------------------------------------------------
(* run(): the except clauses.  Both clauses do the same: leave the loop   *)
(* when a stop is pending, otherwise sleep for reconnect_delay.            *)

ExceptHandlerFatal(run) == "stopped"

ExceptHandler(run) == IF ~run THEN "stopped" ELSE "backoff"

(* while self.running: connect again, or fall out of the loop *)
LoopTopAlways(run) == "connecting"

LoopTop(run) == IF run THEN "connecting" ELSE "stopped"

(* min(reconnect_delay * 2, max_reconnect_delay) *)
NextDelayUncapped(d) == d * 2

NextDelay(d) == Min(d * 2, MaxReconnectDelay)

(* async with db_session_factory() as db: entering and leaving *)
SessionEnter(n) == n + 1
SessionExitLeak(n) == n

SessionExit(n) == n - 1

Errors == {"MqttError", "Exception"}

(* A failure was handled: the history counters and the next position. *)
Fail(ev) ==
    /\ subFails < MaxFailures
    /\ pc' = ExceptHandler(running)
    /\ event' = ev
    /\ fails' = fails + 1
    /\ subFails' = subFails + 1

Idle == /\ msg' = NoMsg
        /\ cursor' = <<0, 0>>
        /\ tray' = NoTray
        /\ update' = NoUpdate
        /\ failedInMsg' = FALSE

----------------------------------------------------------------------------
(* State after __init__ *)

Init ==
    /\ running = FALSE
    /\ client = "None"
    /\ last_remaining = [x \in {} |-> 0]
    /\ reconnect_delay = InitialDelay
    /\ pc = "init"
    /\ session = 0
    /\ msg = NoMsg
    /\ cursor = <<0, 0>>
    /\ tray = NoTray
    /\ update = NoUpdate
    /\ event = "init"
    /\ fails = 0
    /\ subFails = 0
    /\ stopCalled = FALSE
    /\ failedInMsg = FALSE
    /\ log = <<>>
    /\ doc = <<>>
    /\ pass = 0

(* run() up to the first await: the flag, the delay, the first attempt *)
Run ==
    /\ pc = "init"
    /\ running' = TRUE
    /\ reconnect_delay' = InitialDelay
    /\ pc' = LoopTop(TRUE)
    /\ event' = "run"
    /\ UNCHANGED <<log, client, last_remaining, session, msg, cursor, tray, update,
                   fails, subFails, stopCalled, failedInMsg, doc, pass>>

(* stop(): only the flag changes; self.client is read and left alone *)
Stop ==
    /\ pc \notin {"init", "stopped"}
    /\ running' = FALSE
    /\ stopCalled' = TRUE
    /\ event' = "stop"
    /\ UNCHANGED <<log, client, last_remaining, reconnect_delay, pc, session, msg,
                   cursor, tray, update, fails, subFails, failedInMsg, doc, pass>>

(* aiomqtt.Client.__aenter__ returned *)
ConnectOk ==
    /\ pc = "connecting"
    /\ client' = "Client"
    /\ reconnect_delay' = ResetDelay
    /\ pc' = "subscribing"
    /\ event' = "connect_ok"
    /\ fails' = 0
    /\ UNCHANGED <<log, running, last_remaining, session, msg, cursor, tray, update,
                   subFails, stopCalled, failedInMsg, doc, pass>>

(* aiomqtt.Client.__aenter__ raised *)
ConnectFail ==
    /\ pc = "connecting"
    /\ \E e \in Errors : Fail("connect_fail")
    /\ UNCHANGED <<log, running, client, last_remaining, reconnect_delay, session,
                   msg, cursor, tray, update, stopCalled, failedInMsg, doc, pass>>

(* client.subscribe(topic) returned *)
SubscribeOk ==
    /\ pc = "subscribing"
    /\ pc' = "receiving"
    /\ event' = "subscribe_ok"
    /\ subFails' = 0
    /\ UNCHANGED <<log, running, client, last_remaining, reconnect_delay, session,
                   msg, cursor, tray, update, fails, stopCalled, failedInMsg, doc, pass>>

(* client.subscribe(topic) raised *)
SubscribeFail ==
    /\ pc = "subscribing"
    /\ \E e \in Errors : Fail("subscribe_fail")
    /\ UNCHANGED <<log, running, client, last_remaining, reconnect_delay, session,
                   msg, cursor, tray, update, stopCalled, failedInMsg, doc, pass>>

(* client.messages yielded a message: discard it when a stop is pending,  *)
(* otherwise start opening a store session for it                          *)
Receive ==
    /\ pc = "receiving"
    /\ event' = "receive"
    /\ IF ~running
       THEN /\ pc' = LoopTop(running)
            /\ msg' = NoMsg
       ELSE /\ pc' = "opening"
            /\ \E shape \in MsgShapes : msg' = shape
    /\ UNCHANGED <<log, running, client, last_remaining, reconnect_delay, session,
                   cursor, tray, update, fails, subFails, stopCalled,
                   failedInMsg, doc, pass>>

(* client.messages ended without an error: the loop turns at once *)
StreamEnd ==
    /\ pc = "receiving"
    /\ pc' = LoopTop(running)
    /\ event' = "stream_end"
    /\ UNCHANGED <<log, running, client, last_remaining, reconnect_delay, session,
                   msg, cursor, tray, update, fails, subFails, stopCalled,
                   failedInMsg, doc, pass>>

(* client.messages raised: the connection dropped *)
Drop ==
    /\ pc = "receiving"
    /\ \E e \in Errors : Fail("drop")
    /\ UNCHANGED <<log, running, client, last_remaining, reconnect_delay, session,
                   msg, cursor, tray, update, stopCalled, failedInMsg, doc, pass>>

(* db_session_factory() gave a session: _process_message runs up to the  *)
(* loop of _process_ams_data, or returns at once                           *)
SessionOpenOk ==
    /\ pc = "opening"
    /\ session' = SessionEnter(session)
    /\ pc' = IF HasAmsData(msg) THEN "units" ELSE "closing"
    /\ event' = "message"
    /\ UNCHANGED <<log, running, client, last_remaining, reconnect_delay, msg,
                   cursor, tray, update, fails, subFails, stopCalled,
                   failedInMsg, doc, pass>>

(* db_session_factory() raised: no session, the exception reaches run() *)
SessionOpenFail ==
    /\ pc = "opening"
    /\ Fail("session_open_fail")
    /\ Idle
    /\ UNCHANGED <<log, running, client, last_remaining, reconnect_delay, session,
                   stopCalled, doc, pass>>

(* for ams_unit in ams_data: the next unit has the given shape *)
UnitStep(shape) ==
    /\ pc = "units"
    /\ event' = "unit"
    /\ cursor' = <<cursor[1] + 1, 0>>
    /\ pc' = CASE shape = "no_tray" -> "units"
               [] shape = "bad" -> "closing"
               [] shape = "trays" -> "trays"
    /\ tray' = NoTray
    /\ UNCHANGED <<log, running, client, last_remaining, reconnect_delay, session,
                   msg, update, fails, subFails, stopCalled, failedInMsg,
                   doc, pass>>

NextUnit ==
    /\ cursor[1] < MaxUnits
    /\ \E shape \in UnitShapes : UnitStep(shape)

(* for ams_unit in ams_data: the list is exhausted, _process_message returns *)
EndUnits ==
    /\ pc = "units"
    /\ pc' = "closing"
    /\ event' = "end_units"
    /\ tray' = NoTray
    /\ UNCHANGED <<log, running, client, last_remaining, reconnect_delay, session,
                   msg, cursor, update, fails, subFails, stopCalled,
                   failedInMsg, doc, pass>>

(* for tray in ams_unit["tray"]: the next tray is t; its processing up to *)
(* the store update                                                        *)
TrayStep(t) ==
    /\ pc = "trays"
    /\ LET r == ProcessTray(last_remaining, t)
       IN  /\ tray' = t
           /\ last_remaining' = r.last
           /\ update' = r.upd
           /\ pc' = IF r.dispatch THEN "updating" ELSE "trays"
    /\ cursor' = <<cursor[1], cursor[2] + 1>>
    /\ event' = "tray"
    /\ UNCHANGED <<running, client, reconnect_delay, session, msg, fails,
                   subFails, stopCalled, failedInMsg, doc, pass>>

NextTray ==
    /\ cursor[2] < MaxTrays
    /\ \E t \in Trays : TrayStep(t)
    /\ UNCHANGED log

(* for tray in ams_unit["tray"]: the list is exhausted *)
EndTrays ==
    /\ pc = "trays"
    /\ pc' = "units"
    /\ event' = "end_trays"
    /\ tray' = NoTray
    /\ UNCHANGED <<log, running, client, last_remaining, reconnect_delay, session,
                   msg, cursor, update, fails, subFails, stopCalled,
                   failedInMsg, doc, pass>>

(* spool_db.update returned *)
UpdateOk ==
    /\ pc = "updating"
    /\ pc' = "trays"
    /\ event' = "update_ok"
    /\ update' = NoUpdate
    /\ UNCHANGED <<log, running, client, last_remaining, reconnect_delay, session,
                   msg, cursor, tray, fails, subFails, stopCalled, failedInMsg, doc, pass>>

(* spool_db.update raised: except Exception logs it, the loop goes on *)
UpdateFailurePropagates(p) == "closing"
UpdateFailureEscapes(p) == "backoff"

UpdateFailure(p) == "trays"

UpdateFail ==
    /\ pc = "updating"
    /\ pc' = UpdateFailure(pc)
    /\ event' = "update_fail"
    /\ update' = NoUpdate
    /\ failedInMsg' = TRUE
    /\ UNCHANGED <<log, running, client, last_remaining, reconnect_delay, session,
                   msg, cursor, tray, fails, subFails, stopCalled,
                   doc, pass>>

(* leaving "async with db_session_factory()": the session is released and *)
(* the loop waits for the next message                                     *)
SessionCloseOk ==
    /\ pc = "closing"
    /\ session' = SessionExit(session)
    /\ pc' = "receiving"
    /\ event' = "session_closed"
    /\ Idle
    /\ UNCHANGED <<log, running, client, last_remaining, reconnect_delay, fails,
                   subFails, stopCalled, doc, pass>>

(* leaving the session raised: the exception reaches run() *)
SessionCloseFail ==
    /\ pc = "closing"
    /\ session' = SessionExit(session)
    /\ Fail("session_close_fail")
    /\ Idle
    /\ UNCHANGED <<log, running, client, last_remaining, reconnect_delay,
                   stopCalled, doc, pass>>

(* asyncio.sleep(reconnect_delay) returned: double the delay, loop top *)
BackoffDone ==
    /\ pc = "backoff"
    /\ reconnect_delay' = NextDelay(reconnect_delay)
    /\ pc' = LoopTop(running)
    /\ event' = "backoff_done"
    /\ UNCHANGED <<log, running, client, last_remaining, session, msg, cursor,
                   tray, update, fails, subFails, stopCalled, failedInMsg, doc, pass>>

Next ==
    \/ Run
    \/ Stop
    \/ ConnectOk
    \/ ConnectFail
    \/ SubscribeOk
    \/ SubscribeFail
    \/ Receive
    \/ StreamEnd
    \/ Drop
    \/ SessionOpenOk
    \/ SessionOpenFail
    \/ NextUnit
    \/ EndUnits
    \/ NextTray
    \/ EndTrays
    \/ UpdateOk
    \/ UpdateFail
    \/ SessionCloseOk
    \/ SessionCloseFail
    \/ BackoffDone

Spec == Init /\ [][Next]_vars

(* The steps the event loop is bound to take: a started connect, subscribe, *)
(* store call or sleep completes, and the synchronous code between awaits   *)
(* runs.  The arrival of a message, a connection drop and a call of stop()  *)
(* are up to the environment.                                               *)
Internal ==
    \/ Run
    \/ ConnectOk \/ ConnectFail
    \/ SubscribeOk \/ SubscribeFail
    \/ SessionOpenOk \/ SessionOpenFail
    \/ NextUnit \/ EndUnits \/ NextTray \/ EndTrays
    \/ UpdateOk \/ UpdateFail
    \/ SessionCloseOk \/ SessionCloseFail
    \/ BackoffDone

FairSpec == Spec /\ WF_vars(Internal)

----------------------------------------------------------------------------
(* SpecReplay: _process_ams_data is run twice in a row on one message,    *)
(* fixed in the initial state together with the tracker left by earlier   *)
(* messages.                                                               *)

ReplayTray(id, p) == [t |-> "dict", id |-> id, remain |-> Num(p), tray_weight |-> Num(1000)]

ReplayTrays == {ReplayTray(NumText(0), 0), ReplayTray(Num(0), 10),
                ReplayTray(NumText(1), 10), ReplayTray(NumText(2), 10)}

SeqsUpTo(S, n) == {<<>>} \cup UNION {[1..k -> S] : k \in 1..n}

ReplayUnits == {[shape |-> "no_tray", trays |-> <<>>], [shape |-> "bad", trays |-> <<>>]}
               \cup {[shape |-> "trays", trays |-> ts] : ts \in SeqsUpTo(ReplayTrays, MaxTrays)}

Docs == SeqsUpTo(ReplayUnits, MaxUnits) \ {<<>>}

ReplayTrackers == {[x \in {} |-> 0], ("0" :> 0), ("0" :> 0) @@ ("1" :> 0)}

InitReplay ==
    /\ running = TRUE
    /\ client = "Client"
    /\ last_remaining \in ReplayTrackers
    /\ reconnect_delay = ResetDelay
    /\ pc = "units"
    /\ session = 1
    /\ msg = "units"
    /\ cursor = <<0, 0>>
    /\ tray = NoTray
    /\ update = NoUpdate
    /\ event = "message"
    /\ fails = 0
    /\ subFails = 0
    /\ stopCalled = FALSE
    /\ failedInMsg = FALSE
    /\ log = <<>>
    /\ doc \in Docs
    /\ pass = 1

ReplayNextUnit ==
    /\ cursor[1] < Len(doc)
    /\ UnitStep(doc[cursor[1] + 1].shape)

ReplayEndUnits ==
    /\ cursor[1] = Len(doc)
    /\ EndUnits

(* for ams_unit in ams_data, for tray in ams_unit["tray"]: the i-th tray *)
(* of the u-th unit                                                        *)
TrayAtReversed(d, u, i) == d[u].trays[Len(d[u].trays) + 1 - i]

TrayAt(d, u, i) == d[u].trays[i]

ReplayNextTray ==
    /\ pc = "trays"
    /\ cursor[2] < Len(doc[cursor[1]].trays)
    /\ TrayStep(TrayAt(doc, cursor[1], cursor[2] + 1))
    /\ log' = IF pc' = "updating"
              THEN Append(log, <<pass, cursor[1], cursor[2] + 1>>)
              ELSE log

ReplayEndTrays ==
    /\ pc = "trays"
    /\ cursor[2] = Len(doc[cursor[1]].trays)
    /\ EndTrays

(* The first processing returned: the identical message is processed again *)
ReplayAgain ==
    /\ pc = "closing"
    /\ pass = 1
    /\ pass' = 2
    /\ pc' = "units"
    /\ event' = "message"
    /\ cursor' = <<0, 0>>
    /\ tray' = NoTray
    /\ update' = NoUpdate
    /\ failedInMsg' = FALSE
    /\ UNCHANGED <<log, running, client, last_remaining, reconnect_delay, session,
                   msg, fails, subFails, stopCalled, doc>>

NextReplay ==
    \/ ReplayNextUnit
    \/ ReplayEndUnits
    \/ ReplayNextTray
    \/ ReplayEndTrays
    \/ UpdateOk
    \/ UpdateFail
    \/ ReplayAgain

SpecReplay == InitReplay /\ [][NextReplay]_vars

----------------------------------------------------------------------------
(* SpecUnit: as SpecReplay, for the messages of one unit whose trays all  *)
(* belong to slot "0", with every kind of remain and tray_weight.          *)

UnitTrays == [t : {"dict"}, id : {NumText(0)},
              remain : {Num(0), Num(4), Num(5), Text},
              tray_weight : {Num(1000), Absent, Text}]

UnitDocs == {<<[shape |-> "trays", trays |-> ts]>> : ts \in SeqsUpTo(UnitTrays, MaxTrays)}

UnitTrackers == {[x \in {} |-> 0], ("0" :> 0)}

InitUnit ==
    /\ running = TRUE
    /\ client = "Client"
    /\ last_remaining \in UnitTrackers
    /\ reconnect_delay = ResetDelay
    /\ pc = "units"
    /\ session = 1
    /\ msg = "units"
    /\ cursor = <<0, 0>>
    /\ tray = NoTray
    /\ update = NoUpdate
    /\ event = "message"
    /\ fails = 0
    /\ subFails = 0
    /\ stopCalled = FALSE
    /\ failedInMsg = FALSE
    /\ log = <<>>
    /\ doc \in UnitDocs
    /\ pass = 1

SpecUnit == InitUnit /\ [][NextReplay]_vars

----------------------------------------------------------------------------
(* Properties *)

Numeric(x) == x.t \in {"num", "numtext"}

(* The condition of C1 on tray t and the tracker before t is processed *)
Eligible(last, t) ==
    /\ t.t = "dict"
    /\ Str(t.id) \in DOMAIN ams_mappings
    /\ Numeric(t.remain)
    /\ Numeric(t.tray_weight)
    /\ \/ Str(t.id) \notin DOMAIN last
       \/ Abs(t.remain.v - last[Str(t.id)]) >= 5

SubscribedPositions == {"receiving", "opening", "units", "trays", "updating", "closing"}

(* C1: whenever a tray is processed, a store update is started for it if  *)
(* and only if its slot is mapped, its remain and tray_weight are numeric *)
(* and the slot has no baseline or the percentage is at least 0.5 away    *)
(* from the baseline.                                                      *)
C1_DispatchIffEligible ==
    [][(pc = "trays" /\ event' = "tray")
         => ((pc' = "updating") <=> Eligible(last_remaining, tray'))]_vars

(* a mapped tray with numeric fields was suppressed by an existing baseline *)
C1_Witness ==
    /\ pc = "trays"
    /\ event = "tray"
    /\ tray.t = "dict"
    /\ Str(tray.id) \in DOMAIN last_remaining
    /\ Numeric(tray.remain)
    /\ Numeric(tray.tray_weight)
    /\ Abs(tray.remain.v - last_remaining[Str(tray.id)]) = 4

(* C2: once stop() was called during run(), run() eventually returns,     *)
(* even when no further message or transport error arrives.               *)
C2_StopLeadsToStopped == stopCalled ~> (pc = "stopped")

(* C3 as stated: the wait after the k-th consecutive failure since the    *)
(* last successful subscribe is min(5 * 2^(k-1), 300), between 5 and 300. *)
C3_BackoffSinceSubscribe ==
    /\ reconnect_delay >= 5
    /\ reconnect_delay <= 300
    /\ pc = "backoff" => reconnect_delay = Min(5 * 2^(subFails - 1), 300)

(* C3 amended: the wait after the k-th consecutive failure since the last *)
(* opened transport session is min(5 * 2^(k-1), 300), between 5 and 300.  *)
C3_BackoffSinceConnect ==
    /\ reconnect_delay >= 5
    /\ reconnect_delay <= 300
    /\ pc = "backoff" => reconnect_delay = Min(5 * 2^(fails - 1), 300)

(* the fourth consecutive failure waits 40, after an earlier subscribe    *)
(* failure that had waited 5                                               *)
C3_Witness ==
    /\ pc = "backoff"
    /\ fails = 4
    /\ reconnect_delay = 40
    /\ subFails > fails

(* Every mapped slot has at most one record with a numeric percentage in d *)
OneRecordPerSlot(d) ==
    \A s \in DOMAIN ams_mappings :
        Cardinality({<<u, i>> \in (1..Len(d)) \X (1..MaxTrays + 1) :
                        /\ i <= Len(d[u].trays)
                        /\ Str(d[u].trays[i].id) = s
                        /\ Numeric(d[u].trays[i].remain)}) <= 1

(* C4 as stated: no store update is started while the identical message   *)
(* is processed the second time.                                           *)
C4_ReplayDispatchesNothing == pass = 2 => pc # "updating"

(* C4 amended: no store update is started during the replay of a message  *)
(* in which every mapped slot has at most one record with a numeric       *)
(* percentage.                                                             *)
C4_ReplaySingleRecords ==
    (pass = 2 /\ OneRecordPerSlot(doc)) => pc # "updating"

(* during the replay a record is suppressed by the baseline 10 that only  *)
(* the first processing can have set                                       *)
C4_Witness ==
    /\ pass = 2
    /\ OneRecordPerSlot(doc)
    /\ pc = "trays"
    /\ event = "tray"
    /\ Eligible([x \in {} |-> 0], tray)
    /\ tray.remain.v = 10
    /\ last_remaining[Str(tray.id)] = 10

(* C5: a failed store update leaves the loop where it was: same session,  *)
(* same delay, same tracker, next tray of the same message; and trays     *)
(* read after a failure in the same message are dispatched when eligible. *)
C5_UpdateFailureContained ==
    [][/\ (pc = "updating" /\ event' = "update_fail")
            => /\ pc' = "trays"
               /\ session' = session
               /\ reconnect_delay' = reconnect_delay
               /\ last_remaining' = last_remaining
               /\ cursor' = cursor
       /\ (failedInMsg /\ pc = "trays" /\ event' = "tray")
            => ((pc' = "updating") <=> Eligible(last_remaining, tray'))
       /\ (failedInMsg /\ pc = "closing" /\ event' = "session_closed")
            => pc' = "receiving"]_vars

(* after a failed update, a later tray of the same message is dispatched  *)
C5_Witness == failedInMsg /\ pc = "updating"

(* C6: run() is left only after stop(); a failure met while running is    *)
(* followed by the backoff wait, and the wait by a connection attempt.    *)
FailEvents == {"connect_fail", "subscribe_fail", "drop", "session_open_fail",
               "session_close_fail"}

C6_OnlyStopEnds ==
    [][/\ pc' = "stopped" => (stopCalled' /\ ~running')
       /\ (event' \in FailEvents /\ running) => pc' = "backoff"
       /\ (event' = "backoff_done" /\ running) => pc' = "connecting"]_vars

(* a second failure in a row was followed by a wait and a new attempt     *)
C6_Witness ==
    /\ pc = "connecting"
    /\ event = "backoff_done"
    /\ subFails >= 2
    /\ ~stopCalled

(* C7: with a stop pending, no step starts a connection attempt, a        *)
(* backoff wait or the processing of a message.                           *)
C7_NothingNewAfterStop ==
    [][(pc # "init" /\ ~running)
         => /\ pc' = "connecting" => pc = "connecting"
            /\ pc' = "backoff" => pc = "backoff"
            /\ pc' = "opening" => pc = "opening"
            /\ event' \in (FailEvents \cup {"stream_end", "receive"})
                 => pc' = "stopped"]_vars

(* a message delivered after the stop was discarded and run() returned    *)
C7_Witness == pc = "stopped" /\ event = "receive"

(* C8: at most one session is open, one is open exactly while a message   *)
(* is processed, none while connecting, waiting for a message or backing  *)
(* off.                                                                    *)
C8_SessionPerMessage ==
    /\ session \in {0, 1}
    /\ pc \in {"units", "trays", "updating", "closing"} => session = 1
    /\ pc \in {"init", "connecting", "subscribing", "receiving", "opening",
               "backoff", "stopped"} => session = 0

(* the session of a processed message has been released and the next     *)
(* message is waited for                                                   *)
C8_Witness ==
    /\ pc = "receiving"
    /\ event = "session_closed"
    /\ session = 0
    /\ DOMAIN last_remaining # {}

(* C9: a message without slot groups returns from _process_message with   *)
(* the tracker unchanged and no store update, and nothing but the release *)
(* of its session follows.                                                 *)
NoGroupShapes == {"bad_json", "not_object", "no_print", "no_ams", "empty_ams"}

C9_NoGroupsNoEffect ==
    [][/\ (event' = "message" /\ msg \in NoGroupShapes)
            => /\ pc' = "closing"
               /\ last_remaining' = last_remaining
               /\ update' = NoUpdate
       /\ (pc = "closing" /\ msg \in NoGroupShapes /\ event' # "stop")
            => /\ last_remaining' = last_remaining
               /\ event' \in {"session_closed", "session_close_fail"}
               /\ event' = "session_closed" => pc' = "receiving"]_vars

(* an empty group list was handled while the tracker held baselines       *)
C9_Witness ==
    /\ pc = "closing"
    /\ msg = "empty_ams"
    /\ DOMAIN last_remaining = {"0", "1"}

(* C10: the tracker holds baselines of mapped slots only, and an awaited  *)
(* store update is for the spool mapped to the slot of the tray read.     *)
C10_OnlyMappedSlots ==
    /\ DOMAIN last_remaining \subseteq DOMAIN ams_mappings
    /\ pc = "updating" =>
          /\ Str(tray.id) \in DOMAIN ams_mappings
          /\ update.spool_id = ams_mappings[Str(tray.id)]

(* a tray of an unmapped slot with usable fields was read and skipped     *)
C10_Witness ==
    /\ pc = "trays"
    /\ event = "tray"
    /\ tray.t = "dict"
    /\ Str(tray.id) \notin DOMAIN ams_mappings
    /\ Numeric(tray.remain)
    /\ Numeric(tray.tray_weight)

(* C11: for a tray of a mapped slot with a numeric percentage, a         *)
(* difference of exactly 0.5 from the baseline moves the baseline to the  *)
(* new value and, with a numeric weight, starts the update; the tray is   *)
(* suppressed only when a baseline exists and the difference is below 0.5.*)
Observes(t) ==
    /\ t.t = "dict"
    /\ Str(t.id) \in DOMAIN ams_mappings
    /\ Numeric(t.remain)

C11_ThresholdBoundary ==
    [][(pc = "trays" /\ event' = "tray" /\ Observes(tray'))
         => LET s == Str(tray'.id)
                p == tray'.remain.v
                suppressed == s \in DOMAIN last_remaining
                                /\ last_remaining' = last_remaining
                                /\ last_remaining[s] # p
            IN  /\ (s \in DOMAIN last_remaining /\ Abs(p - last_remaining[s]) = 5)
                     => /\ last_remaining'[s] = p
                        /\ Numeric(tray'.tray_weight) => pc' = "updating"
                /\ suppressed => Abs(p - last_remaining[s]) < 5
                /\ (s \in DOMAIN last_remaining /\ Abs(p - last_remaining[s]) < 5)
                     => (last_remaining' = last_remaining /\ pc' = "trays")]_vars

(* the baseline of slot "0" is 0 after the first tray, and the second    *)
(* tray, at 0.5, is being written to the store                             *)
C11_Witness ==
    /\ pass = 1
    /\ pc = "updating"
    /\ cursor = <<1, 2>>
    /\ doc[1].trays[1].remain = Num(0)
    /\ tray.remain = Num(5)
    /\ last_remaining["0"] = 5

(* C12: the weight of an awaited store update is percentage/100 times the *)
(* tray weight of the tray read, unclamped: 60 % of 1000 g is 600 g, and  *)
(* a negative percentage or weight gives a negative remaining weight.     *)
C12_WeightUnclamped ==
    pc = "updating" =>
        /\ update.remaining_weight = tray.remain.v * tray.tray_weight.v
        /\ (tray.remain.v = 600 /\ tray.tray_weight.v = 1000)
              => update.remaining_weight = 600 * 1000
        /\ (tray.remain.v < 0 /\ tray.tray_weight.v > 0) => update.remaining_weight < 0
        /\ (tray.remain.v > 0 /\ tray.tray_weight.v < 0) => update.remaining_weight < 0

(* a negative weight is being written to the store *)
C12_Witness ==
    /\ pc = "updating"
    /\ update.remaining_weight < 0
    /\ tray.remain.v = 600

(* C13: store updates are started in document order within a message and *)
(* in arrival order across messages, for trays of mapped slots only; the  *)
(* message of two units with a mapped and an unmapped tray each starts    *)
(* exactly the updates of its two mapped trays, in that order.            *)
Before(a, b) ==
    \/ a[1] < b[1]
    \/ a[1] = b[1] /\ a[2] < b[2]
    \/ a[1] = b[1] /\ a[2] = b[2] /\ a[3] < b[3]

TwoByTwo ==
    <<[shape |-> "trays",
       trays |-> <<ReplayTray(Num(0), 10), ReplayTray(NumText(2), 10)>>],
      [shape |-> "trays",
       trays |-> <<ReplayTray(NumText(2), 10), ReplayTray(NumText(1), 10)>>]>>

C13_DocumentOrder ==
    /\ \A k \in 1..Len(log) :
          /\ log[k][1] <= pass
          /\ Str(doc[log[k][2]].trays[log[k][3]].id) \in DOMAIN ams_mappings
    /\ \A k \in 1..(Len(log) - 1) : Before(log[k], log[k + 1])
    /\ (doc = TwoByTwo /\ (pass = 2 \/ pc = "closing"))
          => log = <<(<<1, 1, 1>>), (<<1, 2, 2>>)>>

(* the first processing of that message is over *)
C13_Witness ==
    /\ doc = TwoByTwo
    /\ pass = 1
    /\ pc = "closing"
    /\ Len(log) = 2

(* C14: with no stop pending, every step that leaves the                  *)
(* subscribed positions enters the backoff wait with the delay unchanged, *)
(* and a connection attempt starts only from the backoff wait.            *)
C14_LeavingSubscribedBacksOff ==
    [][/\ (pc \in SubscribedPositions /\ running /\ pc' \notin SubscribedPositions)
            => (pc' = "backoff" /\ reconnect_delay' = reconnect_delay)
       /\ (pc # "init" /\ pc' = "connecting") => pc \in {"backoff", "connecting"}]_vars

(* C15 as stated: the delay is 5 while subscribed, and a failed subscribe *)
(* waits the doubled delay min(5 * 2^(k-1), 300) of the k-th failure      *)
(* since the last successful subscribe.                                    *)
C15_SubscribeFailureKeepsDoubling ==
    /\ pc \in SubscribedPositions => reconnect_delay = 5
    /\ (pc = "backoff" /\ event = "subscribe_fail")
          => reconnect_delay = Min(5 * 2^(subFails - 1), 300)

(* C15 amended: the delay is 5 from the moment the transport session has  *)
(* opened, before the subscribe, so every failed subscribe waits 5.       *)
C15_ResetOnConnect ==
    /\ pc \in ({"subscribing"} \cup SubscribedPositions) => reconnect_delay = 5
    /\ (pc = "backoff" /\ event = "subscribe_fail") => reconnect_delay = 5

(* the third failure in a row, a failed subscribe, waits 5                *)
C15_Witness ==
    /\ pc = "backoff"
    /\ event = "subscribe_fail"
    /\ subFails >= 3
    /\ reconnect_delay = 5

(* C16 as stated: the subscribed positions are left only by a transport   *)
(* error, the end of the stream or a message met with a stop pending.     *)
C16_OnlyTransportOrStopLeaves ==
    [][(pc \in SubscribedPositions /\ pc' \notin SubscribedPositions)
         => event' \in {"drop", "stream_end", "receive"}]_vars

(* C16 amended: no step of _process_message or _process_ams_data leaves   *)
(* the subscribed positions or touches the client or the delay; they are  *)
(* left only by a transport error, the end of the stream, a message met   *)
(* with a stop pending, or a failure to open or release the session.      *)
ProcessingEvents == {"message", "unit", "tray", "end_units", "end_trays",
                     "update_ok", "update_fail", "session_closed"}

C16_ProcessingStaysSubscribed ==
    [][/\ (pc \in SubscribedPositions /\ event' \in ProcessingEvents)
            => /\ pc' \in SubscribedPositions
               /\ client' = client
               /\ reconnect_delay' = reconnect_delay
       /\ (pc \in SubscribedPositions /\ pc' \notin SubscribedPositions)
            => event' \in {"drop", "stream_end", "receive",
                           "session_open_fail", "session_close_fail"}
       /\ (event' = "receive" /\ pc' \notin SubscribedPositions) => ~running]_vars

(* a unit of an unexpected shape raised inside _process_message, which    *)
(* returned; the session is about to be released                           *)
C16_Witness ==
    /\ pc = "closing"
    /\ event = "unit"
    /\ session = 1

(* The tray read in this step and the one read before it in the unit are *)
(* observations of the same slot.                                          *)
SameSlot(a, b) == Observes(a) /\ Observes(b) /\ Str(a.id) = Str(b.id)

Accepted(last, t) ==
    \/ Str(t.id) \notin DOMAIN last
    \/ Abs(t.remain.v - last[Str(t.id)]) >= 5

(* C17: an accepted observation without a numeric weight starts no update *)
(* and becomes the baseline; a tray with the same percentage and a        *)
(* numeric weight that follows a tray without one is not dispatched.      *)
C17_UnusableWeightAdvances ==
    [][(pc = "trays" /\ event' = "tray" /\ Observes(tray'))
         => /\ (~Numeric(tray'.tray_weight) /\ Accepted(last_remaining, tray'))
                 => /\ pc' = "trays"
                    /\ Str(tray'.id) \in DOMAIN last_remaining'
                    /\ last_remaining'[Str(tray'.id)] = tray'.remain.v
            /\ (/\ SameSlot(tray, tray')
                /\ ~Numeric(tray.tray_weight)
                /\ tray'.remain.v = tray.remain.v
                /\ Numeric(tray'.tray_weight))
                 => pc' = "trays"]_vars

(* 0.5 % without a weight became the baseline; 0.5 % with a weight was    *)
(* then suppressed                                                         *)
C17_Witness ==
    /\ pass = 1
    /\ cursor = <<1, 2>>
    /\ pc = "trays"
    /\ event = "tray"
    /\ doc[1].trays[1].remain = Num(5)
    /\ doc[1].trays[1].tray_weight = Absent
    /\ tray.remain = Num(5)
    /\ tray.tray_weight = Num(1000)
    /\ last_remaining["0"] = 5

(* C18 as stated: a tray of a mapped slot whose remain is present and not *)
(* numeric starts no update, the loop goes on, and the tracker is changed *)
(* by it.                                                                  *)
BadPercent(t) ==
    /\ t.t = "dict"
    /\ Str(t.id) \in DOMAIN ams_mappings
    /\ t.remain = Text

C18_BadPercentAdvances ==
    [][(pc = "trays" /\ event' = "tray" /\ BadPercent(tray'))
         => /\ pc' = "trays"
            /\ last_remaining' # last_remaining]_vars

(* C18 amended: such a tray starts no update, the loop goes on, and the   *)
(* tracker is left as it was.                                              *)
C18_BadPercentSkipped ==
    [][(pc = "trays" /\ event' = "tray" /\ BadPercent(tray'))
         => /\ pc' = "trays"
            /\ last_remaining' = last_remaining
            /\ update' = NoUpdate]_vars

(* the tray after one with a non-numeric remain is being dispatched, and  *)
(* the tracker holds nothing but its percentage                           *)
C18_Witness ==
    /\ pass = 1
    /\ cursor = <<1, 2>>
    /\ pc = "updating"
    /\ doc[1].trays[1].remain = Text
    /\ doc[1].trays[1].tray_weight = Num(1000)
    /\ last_remaining["0"] = tray.remain.v

(* C19: when a store update fails the baseline is already the tray's      *)
(* percentage and stays; afterwards a tray within 0.5 of the baseline is  *)
(* suppressed and only one at least 0.5 away starts an update again.      *)
C19_FailedUpdateNotRetried ==
    [][/\ (pc = "updating" /\ event' = "update_fail")
            => /\ Str(tray.id) \in DOMAIN last_remaining
               /\ last_remaining[Str(tray.id)] = tray.remain.v
               /\ last_remaining' = last_remaining
               /\ pc' = "trays"
       /\ (failedInMsg /\ pc = "trays" /\ event' = "tray" /\ Observes(tray'))
            => IF Accepted(last_remaining, tray')
               THEN Numeric(tray'.tray_weight) => pc' = "updating"
               ELSE pc' = "trays" /\ last_remaining' = last_remaining]_vars

(* the update for 0.5 % failed; the next tray, at 0.4 %, was suppressed   *)
C19_Witness ==
    /\ pass = 1
    /\ cursor = <<1, 2>>
    /\ failedInMsg
    /\ pc = "trays"
    /\ event = "tray"
    /\ tray.remain = Num(4)
    /\ tray.tray_weight = Num(1000)
    /\ last_remaining["0"] = 5

(* C20: after an observation the slot's baseline is less than 0.5 away    *)
(* from it; a suppressed observation leaves the tracker unchanged; and an *)
(* observation at least 0.5 away from the baseline is dispatched however  *)
(* close it is to the suppressed observation before it.                   *)
C20_BaselineIsLastAccepted ==
    [][(pc = "trays" /\ event' = "tray" /\ Observes(tray'))
         => /\ Str(tray'.id) \in DOMAIN last_remaining'
            /\ Abs(tray'.remain.v - last_remaining'[Str(tray'.id)]) < 5
            /\ ~Accepted(last_remaining, tray') => last_remaining' = last_remaining
            /\ (/\ SameSlot(tray, tray')
                /\ Abs(tray'.remain.v - tray.remain.v) < 5
                /\ Accepted(last_remaining, tray')
                /\ Numeric(tray'.tray_weight))
                 => pc' = "updating"]_vars

(* from the baseline 0, 0.4 % was suppressed and 0.5 % is being written   *)
C20_Witness ==
    /\ pass = 1
    /\ cursor = <<1, 2>>
    /\ pc = "updating"
    /\ doc[1].trays[1].remain = Num(4)
    /\ tray.remain = Num(5)

====
